---------------------------- MODULE Spec2Model ----------------------------
(***************************************************************************)
(* A model of the osc_address crates:                                      *)
(*   - osc_address          : OscTime / AbsOscTime (NTP time tags) and     *)
(*                            the OscMessage trait                         *)
(*   - osc_address_derive   : #[derive(OscMessage)], the generated         *)
(*                            build_address / serialize_body /             *)
(*                            deserialize_body                             *)
(*   - osc_address_macros   : #[derive(OscAddress)], the older derive      *)
(*                                                                         *)
(* TLC's integers are 32-bit signed, so the u32 and u64 values of the      *)
(* time-tag code are little-endian sequences of base-256 digits: a u32 is  *)
(* 4 digits, a u64 is 8 digits.  Every arithmetic step of the source is    *)
(* carried out at the width the source uses, and the places where a width  *)
(* could be exceeded report it.                                            *)
(*                                                                         *)
(* Strings are sequences of one-character strings, so that splitting an    *)
(* address at '/', formatting a path argument and parsing it back are      *)
(* computed character by character.                                        *)
(***************************************************************************)
EXTENDS Integers, Sequences, FiniteSets, TLC

VARIABLES
    op,       \* the last API call made ("init" before any)
    t,        \* the SystemTime last given to from_system_time, or Unset
    abs,      \* the Option<AbsOscTime> in hand: Unset, None or Some(..)
    tag,      \* the OscTime in hand, or Unset
    bundle,   \* the OscBundle in hand (its time_tag field), or Unset
    sys,      \* the Option<SystemTime> last returned by as_system_time
    arg,      \* the (sec, frac) arguments of the last constructor call
    msg,      \* the message value in hand, or Unset
    target,   \* the type deserialize_body is asked for, or Unset
    addr,     \* the address String in hand, or Unset
    seq,      \* the elements the SeqAccess cursor still holds, or Unset
    out,      \* what deserialize_body returned, or Unset
    wire,     \* the elements impl Serialize wrote to the codec, or Unset
    packets,  \* the messages of the bundle the codec holds, or Unset
    decoded   \* what deserializing the bundle's messages returned, or Unset

timeVars == <<t, abs, tag, bundle, sys, arg>>

routeVars == <<msg, target, addr, seq, out, wire, packets, decoded>>

vars == <<op, t, abs, tag, bundle, sys, arg, msg, target, addr, seq, out,
          wire, packets, decoded>>

-----------------------------------------------------------------------------
(* Option and the markers of the driver *)

Unset == [kind |-> "Unset"]
None == [kind |-> "None"]
Some(v) == [kind |-> "Some", val |-> v]
Panic(why) == [kind |-> "Panic", why |-> why]

-----------------------------------------------------------------------------
(* Fixed-width unsigned integers as little-endian base-256 digit sequences *)

Zeros(n) == [i \in 1..n |-> 0]

\* `x as u64` of a narrower value: zero extension to n digits.
Pad(a, n) == [i \in 1..n |-> IF i <= Len(a) THEN a[i] ELSE 0]

\* `x as u32` of a wider value: the low n digits are kept, the rest dropped.
Low(a, n) == SubSeq(a, 1, n)

\* The digits a truncation to n digits drops.
High(a, n) == SubSeq(a, n + 1, Len(a))

IsZero(a) == \A i \in 1..Len(a) : a[i] = 0

\* The n-digit form of a number small enough for TLC (0 <= k < 2^31).
FromInt(k, n) == [i \in 1..n |-> IF i > 4 THEN 0 ELSE (k \div (256^(i-1))) % 256]

\* a + b + c for digit sequences of one length; the result has one more
\* digit, the carry out.
RECURSIVE AddDigits(_, _, _)
AddDigits(a, b, c) ==
    IF a = <<>> THEN <<c>>
    ELSE LET s == Head(a) + Head(b) + c
         IN  <<s % 256>> \o AddDigits(Tail(a), Tail(b), s \div 256)

\* a - b - br for digit sequences of one length; the last digit of the
\* result is the borrow out (1 when b + br > a).
RECURSIVE SubDigits(_, _, _)
SubDigits(a, b, br) ==
    IF a = <<>> THEN <<br>>
    ELSE LET d == Head(a) - Head(b) - br
         IN  <<(d + 256) % 256>> \o SubDigits(Tail(a), Tail(b), IF d < 0 THEN 1 ELSE 0)

\* a * m + c for one digit m (0 <= m, c <= 255); one more digit than a.
RECURSIVE MulDigit(_, _, _)
MulDigit(a, m, c) ==
    IF a = <<>> THEN <<c>>
    ELSE LET p == Head(a) * m + c
         IN  <<p % 256>> \o MulDigit(Tail(a), m, p \div 256)

\* The full product a * b, Len(a) + Len(b) digits: nothing is lost.
RECURSIVE Mul(_, _)
Mul(a, b) ==
    IF b = <<>> THEN Zeros(Len(a))
    ELSE LET n  == Len(a) + Len(b)
             lo == MulDigit(a, Head(b), 0)
             hi == Mul(a, Tail(b))
         IN  Low(AddDigits(Pad(lo, n), <<0>> \o hi, 0), n)

\* One digit x (k bits left) brought down into the remainder r of a long
\* division by d, a bit at a time; d <= 2^30 keeps 2r + 1 inside TLC's range.
RECURSIVE DivBits(_, _, _, _, _)
DivBits(r, x, k, d, q) ==
    IF k = 0 THEN [q |-> q, r |-> r]
    ELSE LET bit == x \div (2^(k-1))
             r2  == 2 * r + bit
             x2  == x % (2^(k-1))
         IN  IF r2 >= d THEN DivBits(r2 - d, x2, k - 1, d, 2 * q + 1)
                        ELSE DivBits(r2, x2, k - 1, d, 2 * q)

\* a / d and a % d for a divisor d <= 2^30: q has the digits of a.
RECURSIVE DivRem(_, _)
DivRem(a, d) ==
    IF a = <<>> THEN [q |-> <<>>, r |-> 0]
    ELSE LET hi == DivRem(Tail(a), d)
             s  == DivBits(hi.r, Head(a), 8, d, 0)
         IN  [q |-> <<s.q>> \o hi.q, r |-> s.r]

\* a < b for digit sequences of one length, from the most significant digit.
RECURSIVE Less(_, _)
Less(a, b) ==
    IF a = <<>> THEN FALSE
    ELSE LET n == Len(a)
         IN  IF a[n] # b[n] THEN a[n] < b[n]
             ELSE Less(SubSeq(a, 1, n - 1), SubSeq(b, 1, n - 1))

Leq(a, b) == ~Less(b, a)

\* A number written in decimal, most significant digit first, as n base-256
\* digits (the number must fit).
RECURSIVE Dec(_, _)
Dec(ds, n) ==
    IF ds = <<>> THEN Zeros(n)
    ELSE LET m == Len(ds)
         IN  Low(AddDigits(Low(MulDigit(Dec(SubSeq(ds, 1, m - 1), n), 10, 0), n),
                           FromInt(ds[m], n), 0), n)

U32Max == [i \in 1..4 |-> 255]

-----------------------------------------------------------------------------
(* osc_address/src/lib.rs: the time tag *)

\* DELTA_1970_1900 without the 17 leap days between 1900 and 1970.
DELTA_without_leap_days == Low(Mul(FromInt(70 * 365, 4), FromInt(86400, 4)), 4)

\* const DELTA_1970_1900: u32 = (70*365 + 17)*86400, evaluated in u32.
DELTA_1970_1900 == Low(Mul(FromInt(70 * 365 + 17, 4), FromInt(86400, 4)), 4)

\* The divisor and the factor 1000000000 of the two conversions.
NANOS_PER_SEC == 1000000000

\* enum OscTime { Now, At(AbsOscTime) }
Now == [kind |-> "Now"]
At(a) == [kind |-> "At", abs |-> a]

\* AbsOscTime::new: the fields are stored as given, (0, 1) included.
AbsOscTime_new(sec, frac) == [sec |-> sec, frac |-> frac]

\* OscTime::new with the sentinel's fields taken in the other order.
OscTime_new_swapped(sec, frac) ==
    IF sec = FromInt(1, 4) /\ frac = FromInt(0, 4)
    THEN Now
    ELSE At(AbsOscTime_new(sec, frac))

\* OscTime::new: match (sec, frac) { (0, 1) => Now, _ => At(..) }.
OscTime_new(sec, frac) ==
    IF sec = FromInt(0, 4) /\ frac = FromInt(1, 4)
    THEN Now
    ELSE At(AbsOscTime_new(sec, frac))

\* OscBundle::time_tag: OscTime::new(self.time_tag.0, self.time_tag.1).
time_tag(b) == OscTime_new(b.time_tag[1], b.time_tag[2])

\* A SystemTime: the instant UNIX_EPOCH + (secs, nanos), or, with `before`,
\* UNIX_EPOCH - (secs, nanos) for a non-zero (secs, nanos).  secs is a u64,
\* nanos a u32 below 10^9.
SystemTime(before, secs, nanos) ==
    [kind |-> "SystemTime", before |-> before, secs |-> secs, nanos |-> nanos]

\* t.duration_since(UNIX_EPOCH): Err when t precedes the epoch.
duration_since_epoch(time) ==
    IF time.before THEN None ELSE Some([secs |-> time.secs, nanos |-> time.nanos])

\* u64 -> u32 by try_into: Err when the value does not fit.
try_into_u32(x) == IF IsZero(High(x, 4)) THEN Some(Low(x, 4)) ELSE None

\* An addition that wraps instead of reporting the overflow.
wrapping_add(a, b) == Some(Low(AddDigits(a, b, 0), 4))

\* A subtraction with its operands exchanged.
checked_sub_swapped(a, b) ==
    LET d == SubDigits(b, a, 0) IN IF d[5] = 0 THEN Some(Low(d, 4)) ELSE None

\* u32::checked_add and u32::checked_sub.
checked_add(a, b) ==
    LET s == AddDigits(a, b, 0) IN IF s[5] = 0 THEN Some(Low(s, 4)) ELSE None

checked_sub(a, b) ==
    LET d == SubDigits(a, b, 0) IN IF d[5] = 0 THEN Some(Low(d, 4)) ELSE None

\* A shift by 24 bits where 32 are meant.
Shl24(x) == Low(Zeros(3) \o x, 8)

\* x << 32 on a u64: the digits shifted past bit 63 are dropped.
Shl32(x) == Low(Zeros(4) \o x, 8)

\* x >> 32 on a u64.
Shr32(x) == Pad(High(x, 4), 8)

\* The fraction with a divisor one digit short.
frac_u64_short_divisor(nanos) == DivRem(Shl32(Pad(nanos, 8)), 100000000).q

\* ((since_epoch.subsec_nanos() as u64) << 32) / 1000000000, still a u64.
frac_u64(nanos) == DivRem(Shl32(Pad(nanos, 8)), NANOS_PER_SEC).q

\* AbsOscTime::from_system_time.
from_system_time(time) ==
    LET since_epoch == duration_since_epoch(time)
    IN  IF since_epoch = None THEN None
        ELSE LET unix_secs == try_into_u32(since_epoch.val.secs)
             IN  IF unix_secs = None THEN None
                 ELSE LET ntp_secs == checked_add(unix_secs.val, DELTA_1970_1900)
                      IN  IF ntp_secs = None THEN None
                          ELSE Some(AbsOscTime_new(ntp_secs.val,
                                                   Low(frac_u64(since_epoch.val.nanos), 4)))

\* The product taken in u32, without the widening to u64.
nanos_product_u32(frac) ==
    Pad(Low(Mul(Pad(frac, 8), FromInt(NANOS_PER_SEC, 8)), 4), 16)

\* self.frac() as u64 * 1000000000: the exact product (16 digits).
nanos_product(frac) == Mul(Pad(frac, 8), FromInt(NANOS_PER_SEC, 8))

\* The nanoseconds with a shift by 31 bits where 32 are meant.
nanos_u64_shr31(frac) ==
    LET p == Low(nanos_product(frac), 8) IN Shr32(Low(AddDigits(p, p, 0), 8))

\* (self.frac() as u64 * 1000000000) >> 32, on the u64 the product wraps to.
nanos_u64(frac) == Shr32(Low(nanos_product(frac), 8))

\* Duration::new(secs, nanos): whole seconds in nanos carry into secs
\* (a panic if that overflows the u64).
Duration_new(secs, nanos) ==
    LET c == DivRem(nanos, NANOS_PER_SEC)
        s == AddDigits(secs, Pad(c.q, 8), 0)
    IN  IF s[9] # 0 THEN Panic("overflow in Duration::new")
        ELSE [kind |-> "Duration", secs |-> Low(s, 8), nanos |-> FromInt(c.r, 4)]

\* UNIX_EPOCH + dur: a panic when the seconds leave the i64 of the platform.
epoch_plus(dur) ==
    IF dur.kind = "Panic" THEN dur
    ELSE IF dur.secs[8] >= 128 THEN Panic("overflow when adding duration to instant")
    ELSE SystemTime(FALSE, dur.secs, dur.nanos)

\* AbsOscTime::as_system_time.  overflow_checks: whether the build traps an
\* overflowing `*` (a debug build) or lets it wrap (a release build).
as_system_time(self, overflow_checks) ==
    LET secs_unix == checked_sub(self.sec, DELTA_1970_1900)
    IN  IF secs_unix = None THEN None
        ELSE IF overflow_checks /\ ~IsZero(High(nanos_product(self.frac), 8))
        THEN Panic("attempt to multiply with overflow")
        ELSE LET nanos == nanos_u64(self.frac)
                 r     == epoch_plus(Duration_new(Pad(secs_unix.val, 8), Low(nanos, 4)))
             IN  IF r.kind = "Panic" THEN r ELSE Some(r)

\* OscTime::as_system_time: Now reads the clock, At delegates.
OscTime_as_system_time(self, now, overflow_checks) ==
    IF self.kind = "At" THEN as_system_time(self.abs, overflow_checks)
    ELSE Some(now)

-----------------------------------------------------------------------------
(* The inputs the time-tag operations are applied to *)

\* How far around each boundary value the inputs range.
MaxDelta == 2

\* The values within MaxDelta of a that the width of a can hold.
Around(a) ==
    LET n == Len(a)
    IN  { Low(AddDigits(a, FromInt(k, n), 0), n) :
              k \in { j \in 0..MaxDelta : AddDigits(a, FromInt(j, n), 0)[n + 1] = 0 } }
        \cup
        { Low(SubDigits(a, FromInt(k, n), 0), n) :
              k \in { j \in 0..MaxDelta : SubDigits(a, FromInt(j, n), 0)[n + 1] = 0 } }

\* u32 seconds: around 0, around the 1970 epoch in NTP seconds, around 2^32-1.
SecSamples ==
    Around(FromInt(0, 4)) \cup Around(Dec(<<2,2,0,8,9,8,8,8,0,0>>, 4)) \cup Around(U32Max)

\* u32 fractions: around 0, 2^16, one half (0x80000000) and 2^32-1.
FracSamples ==
    Around(FromInt(0, 4)) \cup Around(<<0, 0, 1, 0>>) \cup Around(<<0, 0, 0, 128>>)
        \cup Around(U32Max)

\* u64 seconds since 1970: around 0, around the last second NTP can hold
\* (2^32 - 1 - 2208988800), around 2^32 - 1 and 2^32, and one far beyond.
UnixSecSamples ==
    Around(FromInt(0, 8)) \cup Around(FromInt(2085978495, 8)) \cup Around(Pad(U32Max, 8))
        \cup {<<0, 0, 0, 0, 0, 0, 0, 64>>}

\* u32 nanoseconds below 10^9: around 0, one half second, and 10^9 - 1.
NanosSamples ==
    { n \in Around(FromInt(0, 4)) \cup Around(FromInt(500000000, 4))
              \cup Around(FromInt(999999999, 4)) : Less(n, FromInt(NANOS_PER_SEC, 4)) }

\* Clock readings for OscTime::Now.
ClockSamples == { SystemTime(FALSE, s, FromInt(0, 4)) : s \in UnixSecSamples }

\* Calendar times on both sides of the epoch.
TimeSamples ==
    { SystemTime(FALSE, s, n) : s \in UnixSecSamples, n \in NanosSamples }
    \cup
    ({ SystemTime(TRUE, s, n) :
           s \in Around(FromInt(0, 8)), n \in {FromInt(0, 4), FromInt(1, 4)} }
       \ { SystemTime(TRUE, FromInt(0, 8), FromInt(0, 4)) })

-----------------------------------------------------------------------------
(* The time-tag operations as steps of a caller.  The values are immutable:
   a caller builds one (from a clock reading, from two integers, from a
   received bundle), calls its methods, and drops it. *)

TimeInit ==
    /\ op = "init"
    /\ t = Unset /\ abs = Unset /\ tag = Unset
    /\ bundle = Unset /\ sys = Unset /\ arg = Unset
    /\ msg = Unset /\ target = Unset /\ addr = Unset
    /\ wire = Unset /\ packets = Unset /\ decoded = Unset
    /\ seq = Unset /\ out = Unset

\* let abs = AbsOscTime::from_system_time(time);
FromSystemTime ==
    \E time \in TimeSamples :
        /\ op = "init"
        /\ op' = "from_system_time"
        /\ t' = time
        /\ abs' = from_system_time(time)
        /\ tag' = Unset /\ bundle' = Unset /\ sys' = Unset /\ arg' = Unset
        /\ UNCHANGED routeVars

\* let abs = Some(AbsOscTime::new(sec, frac));
AbsNew ==
    \E sec \in SecSamples, frac \in FracSamples :
        /\ op = "init"
        /\ op' = "AbsOscTime::new"
        /\ arg' = [kind |-> "args", sec |-> sec, frac |-> frac]
        /\ abs' = Some(AbsOscTime_new(sec, frac))
        /\ t' = Unset /\ tag' = Unset /\ bundle' = Unset /\ sys' = Unset
        /\ UNCHANGED routeVars

\* let tag = OscTime::At(abs);  (the variant is public)
WrapAt ==
    /\ abs.kind = "Some"
    /\ op' = "OscTime::At"
    /\ tag' = At(abs.val)
    /\ UNCHANGED <<t, abs, bundle, sys, arg, msg, target, addr, seq, out,
                 wire, packets, decoded>>

\* let tag = OscTime::new(sec, frac);
OscTimeNew ==
    \E sec \in SecSamples, frac \in FracSamples :
        /\ op = "init"
        /\ op' = "OscTime::new"
        /\ arg' = [kind |-> "args", sec |-> sec, frac |-> frac]
        /\ tag' = OscTime_new(sec, frac)
        /\ t' = Unset /\ abs' = Unset /\ bundle' = Unset /\ sys' = Unset
        /\ UNCHANGED routeVars

\* A bundle arrives from the deserializer with any two u32 as its time tag.
ReceiveBundle ==
    \E sec \in SecSamples, frac \in FracSamples :
        /\ op = "init"
        /\ op' = "deserialize bundle"
        /\ bundle' = [kind |-> "OscBundle", time_tag |-> <<sec, frac>>]
        /\ arg' = [kind |-> "args", sec |-> sec, frac |-> frac]
        /\ t' = Unset /\ abs' = Unset /\ tag' = Unset /\ sys' = Unset
        /\ UNCHANGED routeVars

\* let tag = bundle.time_tag();
BundleTimeTag ==
    /\ bundle.kind = "OscBundle"
    /\ op' = "time_tag"
    /\ tag' = time_tag(bundle)
    /\ UNCHANGED <<t, abs, bundle, sys, arg, msg, target, addr, seq, out,
                 wire, packets, decoded>>

\* let sys = abs.as_system_time();
AsSystemTime ==
    /\ abs.kind = "Some"
    /\ \E overflow_checks \in BOOLEAN :
           sys' = as_system_time(abs.val, overflow_checks)
    /\ op' = "as_system_time"
    /\ UNCHANGED <<t, abs, tag, bundle, arg, msg, target, addr, seq, out,
                 wire, packets, decoded>>

\* let sys = tag.as_system_time();  Now reads the clock at the call.
TagAsSystemTime ==
    /\ tag.kind \in {"Now", "At"}
    /\ \E now \in IF tag.kind = "Now" THEN ClockSamples ELSE {Unset},
          overflow_checks \in BOOLEAN :
           sys' = OscTime_as_system_time(tag, now, overflow_checks)
    /\ op' = "OscTime::as_system_time"
    /\ UNCHANGED <<t, abs, tag, bundle, arg, msg, target, addr, seq, out,
                 wire, packets, decoded>>

\* The values are dropped; the caller starts over.
TimeDrop ==
    /\ op # "init"
    /\ op' = "init"
    /\ t' = Unset /\ abs' = Unset /\ tag' = Unset
    /\ bundle' = Unset /\ sys' = Unset /\ arg' = Unset
    /\ UNCHANGED routeVars

TimeNext ==
    \/ FromSystemTime
    \/ AbsNew
    \/ WrapAt
    \/ OscTimeNew
    \/ ReceiveBundle
    \/ BundleTimeTag
    \/ AsSystemTime
    \/ TagAsSystemTime
    \/ TimeDrop

TimeSpec == TimeInit /\ [][TimeNext]_vars

-----------------------------------------------------------------------------
(* osc_address_derive/src/lib.rs: what #[derive(OscMessage)] is given *)

\* syn::Ty of a variant's field: a tuple type (with its number of elements)
\* or a path to a named type.
TyTup(name, len) == [kind |-> "Tup", name |-> name, len |-> len]
TyPath(name) == [kind |-> "Path", name |-> name, len |-> 0]

\* An enum variant as the derive sees it: its ident, the literals of its
\* #[osc_address(address="..")] attributes, and its two tuple fields.
Variant(ident, addresses, ty0, ty1) ==
    [ident |-> ident, addresses |-> addresses, fields |-> <<ty0, ty1>>]

Enum(variants) == [body |-> "Enum", variants |-> variants]
Struct == [body |-> "Struct", variants |-> <<>>]

\* enum OscBranchFmt { Str(String), None }
OscBranchFmt_Str(str) == [kind |-> "Str", str |-> str]
OscBranchFmt_None == [kind |-> "None", str |-> <<>>]

\* get_variant_props: the address, path-argument kind and payload kind of a
\* variant; the derive panics (the build fails) on what it does not support.
get_variant_props(variant) ==
    LET addresses      == variant.addresses
        path_args_type == IF variant.fields[1].kind = "Tup" /\ variant.fields[1].len = 0
                          THEN "Unit" ELSE "One"
        msg_args_type  == IF variant.fields[2].kind \in {"Slice", "Array", "Tup"}
                          THEN "Seq" ELSE "Struct"
        adr            == IF Len(addresses) = 1 THEN OscBranchFmt_Str(addresses[1])
                          ELSE OscBranchFmt_None
    IN  IF Len(addresses) > 1
        THEN Panic("Expected no more than one #[osc_address(address=...)]")
        ELSE IF adr.kind = "Str" /\ path_args_type # "Unit"
        THEN Panic("address literal implies no path arguments, but both were found")
        ELSE [kind |-> "OscRouteProperties", address |-> adr,
              path_args_type |-> path_args_type, msg_args_type |-> msg_args_type]

\* The types of the repository's tests and example, and two enums of the
\* forms the crate documentation lists (a literal variant beside a variant
\* whose path argument is a String; a variant with a u32 path argument
\* and a nested enum before a variant whose path argument is a String).
TypeNames ==
    { "test_nested::MsgLeaf", "test_nested::MsgRoot", "test_patharg::MyStruct",
      "test_payload::MsgLeaf", "test_payload::MsgData",
      "OscToplevel", "OscRouteGraph", "OscRenderer", "OscRendererById",
      "doc::ByName", "doc::ByIdOrName" }

Decl(ty) ==
    CASE ty = "test_nested::MsgLeaf" ->
           Enum(<< Variant("First", << <<"f","i","r","s","t">> >>,
                           TyTup("()", 0), TyTup("()", 0)),
                   Variant("Second", << <<"s","e","c","o","n","d">> >>,
                           TyTup("()", 0), TyTup("(i32, f32)", 2)) >>)
      [] ty = "test_nested::MsgRoot" ->
           Enum(<< Variant("Left", << <<"l","e","f","t">> >>,
                           TyTup("()", 0), TyPath("test_nested::MsgLeaf")),
                   Variant("Right", << <<"r","i","g","h","t">> >>,
                           TyTup("()", 0), TyPath("test_nested::MsgLeaf")) >>)
      [] ty = "test_patharg::MyStruct" ->
           Enum(<< Variant("First", << <<"f","i","r","s","t">> >>,
                           TyTup("()", 0), TyTup("()", 0)),
                   Variant("Second", <<>>, TyPath("i32"), TyTup("()", 0)) >>)
      [] ty = "test_payload::MsgLeaf" ->
           Enum(<< Variant("First", << <<"f","i","r","s","t">> >>,
                           TyTup("()", 0), TyPath("test_payload::MsgData")),
                   Variant("Second", << <<"s","e","c","o","n","d">> >>,
                           TyTup("()", 0), TyTup("(i32, f32)", 2)) >>)
      [] ty = "test_payload::MsgData" -> Struct
      [] ty = "OscToplevel" ->
           Enum(<< Variant("RouteGraph", << <<"r","o","u","t","e","g","r","a","p","h">> >>,
                           TyTup("()", 0), TyPath("OscRouteGraph")),
                   Variant("Renderer", << <<"r","e","n","d","e","r","e","r">> >>,
                           TyTup("()", 0), TyPath("OscRenderer")) >>)
      [] ty = "OscRouteGraph" ->
           Enum(<< Variant("AddNode", << <<"a","d","d","_","n","o","d","e">> >>,
                           TyTup("()", 0), TyTup("(i32,)", 1)),
                   Variant("AddEdge", << <<"a","d","d","_","e","d","g","e">> >>,
                           TyTup("()", 0), TyTup("(i32, i32)", 2)) >>)
      [] ty = "OscRenderer" ->
           Enum(<< Variant("New", << <<"n","e","w">> >>,
                           TyTup("()", 0), TyTup("(i32,)", 1)),
                   Variant("Del", << <<"d","e","l">> >>,
                           TyTup("()", 0), TyTup("(i32,)", 1)),
                   Variant("ById", <<>>, TyPath("u32"), TyPath("OscRendererById")) >>)
      [] ty = "OscRendererById" ->
           Enum(<< Variant("Say", << <<"s","a","y">> >>,
                           TyTup("()", 0), TyTup("(String,)", 1)) >>)
      [] ty = "doc::ByName" ->
           Enum(<< Variant("On", << <<"o","n">> >>,
                           TyTup("()", 0), TyTup("(i32,)", 1)),
                   Variant("Named", <<>>, TyPath("String"), TyTup("(i32,)", 1)) >>)
      [] ty = "doc::ByIdOrName" ->
           Enum(<< Variant("Id", <<>>, TyPath("u32"), TyPath("OscRendererById")),
                   Variant("Name", <<>>, TyPath("String"), TyTup("(String,)", 1)) >>)
      [] ty = "macros::test::MyStruct" ->
           Enum(<< Variant("First", << <<"f","i","r","s","t">> >>,
                           TyTup("()", 0), TyTup("()", 0)),
                   Variant("Second", << <<"s","e","c","o","n","d">> >>,
                           TyTup("()", 0), TyTup("()", 0)) >>)
      [] ty = "macros::test_nonnested::MyStruct" ->
           Enum(<< Variant("First", << <<"f","i","r","s","t">> >>,
                           TyTup("()", 0), TyTup("()", 0)),
                   Variant("Second", << <<"s","e","c","o","n","d">> >>,
                           TyTup("()", 0), TyTup("(i32, f32)", 2)) >>)

\* The enums of the tests of osc_address_macros, which derive OscAddress.
MacrosTypeNames ==
    { "macros::test::MyStruct", "macros::test_nonnested::MyStruct" }

\* The variant of an enum declaration with the given ident.
VariantOf(ty, ident) ==
    LET vs == Decl(ty).variants
    IN  vs[CHOOSE i \in 1..Len(vs) : vs[i].ident = ident]

-----------------------------------------------------------------------------
(* Path arguments: std::fmt::Display and std::str::FromStr *)

\* Path-argument values: (), an integer, or a String.
UnitArg == [k |-> "unit", n |-> 0, s |-> <<>>]
IntArg(n) == [k |-> "int", n |-> n, s |-> <<>>]
StrArg(s) == [k |-> "str", n |-> 0, s |-> s]

DigitChars == <<"0", "1", "2", "3", "4", "5", "6", "7", "8", "9">>

IsDigit(c) == \E d \in 1..10 : DigitChars[d] = c

DigitOf(c) == (CHOOSE d \in 1..10 : DigitChars[d] = c) - 1

\* The decimal digits of n >= 0.
RECURSIVE Decimal(_)
Decimal(n) ==
    IF n < 10 THEN <<DigitChars[n + 1]>>
    ELSE Decimal(n \div 10) \o <<DigitChars[(n % 10) + 1]>>

\* format!("{}", path_arg)
Display(p) ==
    IF p.k = "str" THEN p.s
    ELSE IF p.n < 0 THEN <<"-">> \o Decimal(0 - p.n)
    ELSE Decimal(p.n)

\* The value of a non-empty run of decimal digits.
RECURSIVE DigitsValue(_)
DigitsValue(s) ==
    IF Len(s) = 1 THEN DigitOf(s[1])
    ELSE 10 * DigitsValue(SubSeq(s, 1, Len(s) - 1)) + DigitOf(s[Len(s)])

AllDigits(s) == s # <<>> /\ \A i \in 1..Len(s) : IsDigit(s[i])

\* component_name.parse::<T>() for the path-argument types of the model:
\* String takes any text; u32 takes an optional '+' and digits; i32 an
\* optional '+' or '-' and digits.
parse(ty, s) ==
    CASE ty = "String" -> Some(StrArg(s))
      [] ty = "u32" ->
           LET body == IF s # <<>> /\ s[1] = "+" THEN Tail(s) ELSE s
           IN  IF AllDigits(body) THEN Some(IntArg(DigitsValue(body))) ELSE None
      [] ty = "i32" ->
           LET signed == s # <<>> /\ s[1] \in {"+", "-"}
               body   == IF signed THEN Tail(s) ELSE s
           IN  IF ~AllDigits(body) THEN None
               ELSE IF signed /\ s[1] = "-" THEN Some(IntArg(0 - DigitsValue(body)))
               ELSE Some(IntArg(DigitsValue(body)))

-----------------------------------------------------------------------------
(* Message values *)

\* How many different payloads of each type the model builds.
MaxPayload == 2

\* One element of the argument sequence: a tuple or a struct, as the codec
\* hands it over, tagged with the type it serializes.
Element(ty, data) == [ty |-> ty, data |-> data]

\* A value of an enum: EnumName::Ident(path_arg, msg_data).
EnumValue(ty, ident, path_arg, msg_data) ==
    [ty |-> ty, variant |-> ident, path_arg |-> path_arg, msg_data |-> msg_data]

\* The path arguments the model builds of each type.
PathSamples(ty) ==
    CASE ty = "u32" -> { IntArg(0), IntArg(7), IntArg(42) }
      [] ty = "i32" -> { IntArg(0 - 1), IntArg(0), IntArg(42) }
      [] ty = "String" -> { StrArg(<<>>), StrArg(<<"a">>), StrArg(<<"o","n">>),
                            StrArg(<<"a","/","b">>) }

\* Every value of a type, over the sampled path arguments and payloads.
RECURSIVE Values(_)
Values(ty) ==
    LET decl == Decl(ty)
        VariantValues(variant) ==
            LET path_args == IF variant.fields[1].kind = "Tup" THEN {UnitArg}
                             ELSE PathSamples(variant.fields[1].name)
                payloads  == IF variant.fields[2].kind = "Tup"
                             THEN { Element(variant.fields[2].name, d) : d \in 1..MaxPayload }
                             ELSE Values(variant.fields[2].name)
            IN  { EnumValue(ty, variant.ident, p, m) : p \in path_args, m \in payloads }
    IN  IF decl.body = "Struct" THEN { Element(ty, d) : d \in 1..MaxPayload }
        ELSE UNION { VariantValues(decl.variants[i]) : i \in 1..Len(decl.variants) }

AllValues == UNION { Values(ty) : ty \in TypeNames }

MacrosValues == UNION { Values(ty) : ty \in MacrosTypeNames }

-----------------------------------------------------------------------------
(* osc_address_derive/src/lib.rs: the generated impl OscMessage *)

\* A push of the literal alone, without the separating '/'.
push_literal_bare(address, variant_address) == address \o variant_address

\* The address pushed for a literal: "/".to_string() + &variant_address.
push_literal(address, variant_address) == address \o (<<"/">> \o variant_address)

\* The address pushed for a path argument: format!("/{}", path_arg).
push_path_arg(address, path_arg) == address \o (<<"/">> \o Display(path_arg))

\* A build_address that lets the nested payload push before its own segment.
RECURSIVE build_address_bottom_up(_, _)
build_address_bottom_up(self, address) ==
    IF Decl(self.ty).body = "Struct" THEN address
    ELSE LET variant_props == get_variant_props(VariantOf(self.ty, self.variant))
             below == IF variant_props.msg_args_type = "Seq" THEN address
                      ELSE build_address_bottom_up(self.msg_data, address)
         IN  IF variant_props.address.kind = "Str"
             THEN below \o (<<"/">> \o variant_props.address.str)
             ELSE below \o (<<"/">> \o Display(self.path_arg))

\* build_address: an enum pushes its segment and, for a nested OscMessage,
\* lets the payload push the rest; a struct pushes nothing.
RECURSIVE build_address(_, _)
build_address(self, address) ==
    IF Decl(self.ty).body = "Struct" THEN address
    ELSE LET variant_props == get_variant_props(VariantOf(self.ty, self.variant))
             pushed == IF variant_props.address.kind = "Str"
                       THEN push_literal(address, variant_props.address.str)
                       ELSE push_path_arg(address, self.path_arg)
         IN  IF variant_props.msg_args_type = "Seq" THEN pushed
             ELSE build_address(self.msg_data, pushed)

\* OscMessage::get_address: build_address into a new String.
get_address(self) == build_address(self, <<>>)

-----------------------------------------------------------------------------
(* osc_address_macros/src/lib.rs: the generated impl OscAddress *)

\* build_address of #[derive(OscAddress)]: the arms push "/" and the
\* literal, or format!("/{}", path_arg), then let a nested payload push.
RECURSIVE macros_build_address(_, _)
macros_build_address(self, address) ==
    IF Decl(self.ty).body = "Struct" THEN address
    ELSE LET variant_props == get_variant_props(VariantOf(self.ty, self.variant))
             pushed == IF variant_props.address.kind = "Str"
                       THEN address \o (<<"/">> \o variant_props.address.str)
                       ELSE address \o (<<"/">> \o Display(self.path_arg))
         IN  IF variant_props.msg_args_type = "Seq" THEN pushed
             ELSE macros_build_address(self.msg_data, pushed)

\* OscAddress::get_address: build_address into a new String.
macros_get_address(self) == macros_build_address(self, <<>>)

-----------------------------------------------------------------------------
(* osc_address_derive/src/lib.rs: serialization and deserialization *)

\* A serialize_body that writes the payload of every level it passes.
RECURSIVE serialize_body_each_level(_, _)
serialize_body_each_level(self, serializer) ==
    IF Decl(self.ty).body = "Struct" THEN Append(serializer, self)
    ELSE LET variant_props == get_variant_props(VariantOf(self.ty, self.variant))
         IN  IF variant_props.msg_args_type = "Seq"
             THEN Append(serializer, self.msg_data)
             ELSE serialize_body_each_level(self.msg_data,
                                            Append(serializer, self.msg_data))

\* serialize_body: the elements serialize_element is called with, appended
\* to those the serializer already holds.
RECURSIVE serialize_body(_, _)
serialize_body(self, serializer) ==
    IF Decl(self.ty).body = "Struct" THEN Append(serializer, self)
    ELSE LET variant_props == get_variant_props(VariantOf(self.ty, self.variant))
         IN  IF variant_props.msg_args_type = "Seq"
             THEN Append(serializer, self.msg_data)
             ELSE serialize_body(self.msg_data, serializer)

\* impl Serialize: a tuple of the address and what serialize_body writes.
serialize(self) == serialize_body(self, <<get_address(self)>>)

\* Results of deserialize_body; seq is what the cursor still holds.
Ok(val, rest) == [kind |-> "Ok", val |-> val, seq |-> rest]
Err(err, rest) == [kind |-> "Err", err |-> err, seq |-> rest]

\* serde::de::Error::invalid_value(Unexpected::Str(..), &expecting)
invalid_value(unexpected, expecting) ==
    [error |-> "invalid_value", unexpected |-> unexpected, expecting |-> expecting]

\* serde::de::Error::invalid_length(len, &expecting)
invalid_length(len, expecting) ==
    [error |-> "invalid_length", unexpected |-> <<>>, expecting |-> expecting]

\* The codec's own error for an element that is not of the type asked for.
invalid_type(expecting) ==
    [error |-> "invalid_type", unexpected |-> <<>>, expecting |-> expecting]

\* A next_element that returns the element and leaves it in the sequence.
next_element_peek(cursor, ty) ==
    IF cursor = <<>> THEN Ok(None, cursor)
    ELSE IF Head(cursor).ty # ty THEN Err(invalid_type(ty), cursor)
    ELSE Ok(Some(Head(cursor)), cursor)

\* seq.next_element::<T>(): Ok(None) at the end of the sequence, Err when
\* the next element is not a T, Ok(Some(element)) otherwise.
next_element(cursor, ty) ==
    IF cursor = <<>> THEN Ok(None, cursor)
    ELSE IF Head(cursor).ty # ty THEN Err(invalid_type(ty), cursor)
    ELSE Ok(Some(Head(cursor)), Tail(cursor))

\* str::rfind('/'): the index of the last '/', counted from 0.
find_last_slash(s) ==
    IF \E i \in 1..Len(s) : s[i] = "/"
    THEN Some((CHOOSE i \in 1..Len(s) : s[i] = "/" /\ \A j \in (i+1)..Len(s) : s[j] # "/") - 1)
    ELSE None

\* str::find('/'): the index of the first '/', counted from 0.
find_slash(s) ==
    IF \E i \in 1..Len(s) : s[i] = "/"
    THEN Some((CHOOSE i \in 1..Len(s) : s[i] = "/" /\ \A j \in 1..(i-1) : s[j] # "/") - 1)
    ELSE None

\* A split that takes the component before the address is cut: the
\* component runs to the end of the address.
split_address_uncut(address) ==
    LET slash_idx == find_slash(Tail(address))
        keep      == IF slash_idx = None THEN Len(address) ELSE 1 + slash_idx.val
    IN  [downstream_address |-> SubSeq(address, keep + 1, Len(address)),
         component_name     |-> SubSeq(address, 2, Len(address))]

\* A split that hands the whole address downstream (the address is
\* copied where it should be cut).
split_address_copied(address) ==
    LET slash_idx == find_slash(Tail(address))
        keep      == IF slash_idx = None THEN Len(address) ELSE 1 + slash_idx.val
    IN  [downstream_address |-> IF slash_idx = None THEN <<>> ELSE address,
         component_name     |-> SubSeq(address, 2, keep)]

\* The split of the address at the next '/' after its first character:
\* address.split_off(1 + idx) leaves the component in address and returns
\* the rest; component_name is &address[1..].
split_address(address) ==
    LET slash_idx == find_slash(Tail(address))
        keep      == IF slash_idx = None THEN Len(address) ELSE 1 + slash_idx.val
    IN  [downstream_address |-> SubSeq(address, keep + 1, Len(address)),
         component_name     |-> SubSeq(address, 2, keep)]

\* seq.next_element()?.unwrap() as the payload of a matched variant.
take_payload(ty, ident, path_arg, payload_ty, cursor) ==
    LET e == next_element(cursor, payload_ty)
    IN  IF e.kind = "Err" THEN e
        ELSE IF e.val = None THEN Panic("called Option::unwrap() on a None value")
        ELSE Ok(EnumValue(ty, ident, path_arg, e.val.val), e.seq)

\* The condition of the arm generated for a variant: the literal equals
\* the component (and, for a sequence payload, nothing is downstream), or
\* the component parses as the path argument.
arm_matches(variant, component_name, downstream_address) ==
    LET variant_props == get_variant_props(variant)
    IN  IF variant_props.address.kind = "Str"
        THEN /\ component_name = variant_props.address.str
             /\ (variant_props.msg_args_type = "Seq" => downstream_address = <<>>)
        ELSE parse(variant.fields[1].name, component_name) # None

\* The index of the first arm whose condition holds, 0 when none does.
selected_arm(ty, component_name, downstream_address) ==
    LET variants == Decl(ty).variants
        hits     == { i \in 1..Len(variants) :
                        arm_matches(variants[i], component_name, downstream_address) }
    IN  IF hits = {} THEN 0
        ELSE CHOOSE i \in hits : \A j \in hits : i <= j

\* deserialize_body.  An enum splits the address and tries its variants in
\* the order of declaration, returning from the first that matches; a struct
\* wants the address to be over and takes one element.
RECURSIVE deserialize_body(_, _, _)
RECURSIVE deserialize_arms(_, _, _, _, _)
RECURSIVE deserialize_arms_backtracking(_, _, _, _, _)
\* The arms with a nested arm that falls through to the next arm when
\* the nested deserialize_body fails.
deserialize_arms_backtracking(ty, i, component_name, downstream_address, cursor) ==
    LET variants == Decl(ty).variants
    IN  IF i > Len(variants)
        THEN Err(invalid_value(component_name,
                 "an OSC component name that matches one of the enum variants"), cursor)
        ELSE
        LET variant       == variants[i]
            variant_props == get_variant_props(variant)
            literal       == variant_props.address.kind = "Str"
            path_arg      == IF literal THEN None
                             ELSE parse(variant.fields[1].name, component_name)
            next          == deserialize_arms_backtracking(ty, i + 1, component_name,
                                              downstream_address, cursor)
            nested(p)     ==
                LET r == deserialize_body(variant.fields[2].name, downstream_address, cursor)
                IN  IF r.kind = "Ok"
                    THEN Ok(EnumValue(ty, variant.ident, p, r.val), r.seq)
                    ELSE next
        IN  IF variant_props.msg_args_type = "Seq"
            THEN IF literal
                 THEN IF component_name = variant_props.address.str
                         /\ downstream_address = <<>>
                      THEN take_payload(ty, variant.ident, UnitArg,
                                        variant.fields[2].name, cursor)
                      ELSE next
                 ELSE IF path_arg # None
                      THEN take_payload(ty, variant.ident, path_arg.val,
                                        variant.fields[2].name, cursor)
                      ELSE next
            ELSE IF literal
                 THEN IF component_name = variant_props.address.str
                      THEN nested(UnitArg)
                      ELSE next
                 ELSE IF path_arg # None
                      THEN nested(path_arg.val)
                      ELSE next

RECURSIVE deserialize_arms_any_downstream(_, _, _, _, _)
\* The arms with a literal sequence arm that does not look downstream.
deserialize_arms_any_downstream(ty, i, component_name, downstream_address, cursor) ==
    LET variants == Decl(ty).variants
    IN  IF i > Len(variants)
        THEN Err(invalid_value(component_name,
                 "an OSC component name that matches one of the enum variants"), cursor)
        ELSE
        LET variant       == variants[i]
            variant_props == get_variant_props(variant)
            literal       == variant_props.address.kind = "Str"
            path_arg      == IF literal THEN None
                             ELSE parse(variant.fields[1].name, component_name)
            next          == deserialize_arms_any_downstream(ty, i + 1, component_name,
                                              downstream_address, cursor)
            nested(p)     ==
                LET r == deserialize_body(variant.fields[2].name, downstream_address, cursor)
                IN  IF r.kind = "Ok"
                    THEN Ok(EnumValue(ty, variant.ident, p, r.val), r.seq)
                    ELSE r
        IN  IF variant_props.msg_args_type = "Seq"
            THEN IF literal
                 THEN IF component_name = variant_props.address.str
                      THEN take_payload(ty, variant.ident, UnitArg,
                                        variant.fields[2].name, cursor)
                      ELSE next
                 ELSE IF path_arg # None
                      THEN take_payload(ty, variant.ident, path_arg.val,
                                        variant.fields[2].name, cursor)
                      ELSE next
            ELSE IF literal
                 THEN IF component_name = variant_props.address.str
                      THEN nested(UnitArg)
                      ELSE next
                 ELSE IF path_arg # None
                      THEN nested(path_arg.val)
                      ELSE next

RECURSIVE deserialize_arms_reversed(_, _, _, _, _)
\* The arms tried from the last declared variant to the first.
deserialize_arms_reversed(ty, i, component_name, downstream_address, cursor) ==
    LET variants == Decl(ty).variants
    IN  IF i > Len(variants)
        THEN Err(invalid_value(component_name,
                 "an OSC component name that matches one of the enum variants"), cursor)
        ELSE
        LET variant       == variants[Len(variants) + 1 - i]
            variant_props == get_variant_props(variant)
            literal       == variant_props.address.kind = "Str"
            path_arg      == IF literal THEN None
                             ELSE parse(variant.fields[1].name, component_name)
            next          == deserialize_arms_reversed(ty, i + 1, component_name,
                                              downstream_address, cursor)
            nested(p)     ==
                LET r == deserialize_body(variant.fields[2].name, downstream_address, cursor)
                IN  IF r.kind = "Ok"
                    THEN Ok(EnumValue(ty, variant.ident, p, r.val), r.seq)
                    ELSE r
        IN  IF variant_props.msg_args_type = "Seq"
            THEN IF literal
                 THEN IF component_name = variant_props.address.str
                         /\ downstream_address = <<>>
                      THEN take_payload(ty, variant.ident, UnitArg,
                                        variant.fields[2].name, cursor)
                      ELSE next
                 ELSE IF path_arg # None
                      THEN take_payload(ty, variant.ident, path_arg.val,
                                        variant.fields[2].name, cursor)
                      ELSE next
            ELSE IF literal
                 THEN IF component_name = variant_props.address.str
                      THEN nested(UnitArg)
                      ELSE next
                 ELSE IF path_arg # None
                      THEN nested(path_arg.val)
                      ELSE next

deserialize_arms(ty, i, component_name, downstream_address, cursor) ==
    LET variants == Decl(ty).variants
    IN  IF i > Len(variants)
        THEN Err(invalid_value(component_name,
                 "an OSC component name that matches one of the enum variants"), cursor)
        ELSE
        LET variant       == variants[i]
            variant_props == get_variant_props(variant)
            literal       == variant_props.address.kind = "Str"
            path_arg      == IF literal THEN None
                             ELSE parse(variant.fields[1].name, component_name)
            next          == deserialize_arms(ty, i + 1, component_name,
                                              downstream_address, cursor)
            nested(p)     ==
                LET r == deserialize_body(variant.fields[2].name, downstream_address, cursor)
                IN  IF r.kind = "Ok"
                    THEN Ok(EnumValue(ty, variant.ident, p, r.val), r.seq)
                    ELSE r
        IN  IF variant_props.msg_args_type = "Seq"
            THEN IF literal
                 THEN IF component_name = variant_props.address.str
                         /\ downstream_address = <<>>
                      THEN take_payload(ty, variant.ident, UnitArg,
                                        variant.fields[2].name, cursor)
                      ELSE next
                 ELSE IF path_arg # None
                      THEN take_payload(ty, variant.ident, path_arg.val,
                                        variant.fields[2].name, cursor)
                      ELSE next
            ELSE IF literal
                 THEN IF component_name = variant_props.address.str
                      THEN nested(UnitArg)
                      ELSE next
                 ELSE IF path_arg # None
                      THEN nested(path_arg.val)
                      ELSE next

deserialize_body(ty, address, cursor) ==
    IF Decl(ty).body = "Struct"
    THEN IF address # <<>> /\ address # <<"/">>
         THEN Err(invalid_value(address, "the OSC path to be terminated by this point"), cursor)
         ELSE LET me == next_element(cursor, ty)
              IN  IF me.kind = "Err" THEN me
                  ELSE IF me.val = None
                  THEN Err(invalid_length(1, "a sequence representing an OSC message payload"),
                           me.seq)
                  ELSE Ok(me.val.val, me.seq)
    ELSE IF Len(address) < 1
    THEN Panic("byte index 1 is out of bounds")
    ELSE LET parts == split_address(address)
         IN  deserialize_arms(ty, 1, parts.component_name, parts.downstream_address, cursor)

\* The addresses of the successive deserialize_body calls that one call
\* makes: its own, and those of the nested call of the arm that returns.
RECURSIVE calls(_, _)
calls(ty, address) ==
    IF Decl(ty).body = "Struct" \/ Len(address) < 1 THEN <<address>>
    ELSE LET parts == split_address(address)
             k     == selected_arm(ty, parts.component_name, parts.downstream_address)
         IN  IF k = 0 THEN <<address>>
             ELSE IF get_variant_props(Decl(ty).variants[k]).msg_args_type = "Seq"
             THEN <<address>>
             ELSE <<address>> \o calls(Decl(ty).variants[k].fields[2].name,
                                       parts.downstream_address)

-----------------------------------------------------------------------------
(* osc_address/src/lib.rs: #[derive(Deserialize)] of OscPacket and OscBundle *)

\* visit_seq of the generated impl Deserialize: the first element is the
\* address, the rest of the sequence goes to deserialize_body.
visit_seq(ty, elements) ==
    IF elements = <<>>
    THEN Err(invalid_length(0, "an OSC address string, followed by a sequence of message arguments"),
             elements)
    ELSE deserialize_body(ty, Head(elements), Tail(elements))

\* enum OscPacket { Message(M), Bundle(OscBundle<M>) }
Message(m) == [kind |-> "Message", val |-> m]

\* #[serde(untagged)] OscPacket<M>, given the elements of a message: the
\* Message variant is tried first; when M refuses the elements the Bundle
\* variant does not take them either and no variant is left.
OscPacket_deserialize(ty, elements) ==
    LET m == visit_seq(ty, elements)
    IN  IF m.kind = "Ok" THEN Ok(Message(m.val), m.seq)
        ELSE IF m.kind = "Panic" THEN m
        ELSE Err([error |-> "custom", unexpected |-> <<>>,
                  expecting |-> "data did not match any variant of untagged enum OscPacket"],
                 m.seq)

\* Vec<OscPacket<M>>::deserialize, the messages field of the derived
\* OscBundle::deserialize: the elements are deserialized in order and the
\* first error is the result (while let Some(value) = seq.next_element()?).
RECURSIVE Vec_deserialize(_, _, _)
Vec_deserialize(ty, wires, values) ==
    IF wires = <<>> THEN Ok(values, <<>>)
    ELSE LET value == OscPacket_deserialize(ty, Head(wires))
         IN  IF value.kind # "Ok" THEN value
             ELSE Vec_deserialize(ty, Tail(wires), Append(values, value.val))

\* OscBundle::messages
messages(b) == b.val

-----------------------------------------------------------------------------
(* The inputs deserialize_body is applied to *)

\* How many segments a received address has at most.
MaxSegments == 3

\* Segments no variant declares: a number, a word, the empty segment (which
\* makes the "//" and the trailing "/" of an address), a signed number.
ExtraSegments == { <<"4","2">>, <<"a","b","c">>, <<>>, <<"-","1">> }

\* The types the variants of the enums in S nest.
NestedTypes(S) ==
    UNION { { Decl(ty).variants[i].fields[2].name :
                i \in 1..Len(Decl(ty).variants) } : ty \in S }
    \cap TypeNames

\* The literal segments the enums in S declare.
Literals(S) ==
    UNION { UNION { { Decl(ty).variants[i].addresses[j] :
                        j \in 1..Len(Decl(ty).variants[i].addresses) } :
                    i \in 1..Len(Decl(ty).variants) } : ty \in S }

\* The payload types (tuples and structs) found below the types in S.
RECURSIVE LeafTypes(_)
LeafTypes(S) ==
    IF S = {} THEN {}
    ELSE { ty \in S : Decl(ty).body = "Struct" }
         \cup UNION { { Decl(ty).variants[i].fields[2].name :
                          i \in { j \in 1..Len(Decl(ty).variants) :
                                    Decl(ty).variants[j].fields[2].kind = "Tup" } } :
                      ty \in S }
         \cup LeafTypes(NestedTypes(S))

\* Addresses of up to n segments, each segment a literal of the level of the
\* type tree it stands at or an extra one.
RECURSIVE AddressesFrom(_, _)
AddressesFrom(S, n) ==
    IF n = 0 THEN { <<>> }
    ELSE { <<>> } \cup
         { <<"/">> \o (segment \o rest) :
             segment \in Literals(S) \cup ExtraSegments,
             rest \in AddressesFrom(NestedTypes(S), n - 1) }

\* The addresses a type is asked to decode: those above, and one-segment
\* addresses that lack the leading '/'.
AddressSamples(ty) ==
    AddressesFrom({ty}, MaxSegments) \cup Literals({ty})

\* The argument sequences a type is asked to decode: none, one element (of
\* a payload type of the tree, or of another type), two elements.
CursorSamples(ty) ==
    { <<>> }
    \cup { <<Element(p, 1)>> : p \in LeafTypes({ty}) \cup {"bool"} }
    \cup { <<Element(p, 1), Element(p, 2)>> : p \in LeafTypes({ty}) }

\* How many packets a received bundle has at most.
MaxPackets == 3

\* The message types of the received bundles.
BundleTypes == { "test_nested::MsgLeaf", "OscRendererById" }

\* The packets of a bundle of messages of a type: the serialized values of
\* the type, a message with a segment no variant has, a message with an
\* empty address, and a message without elements.
PacketSamples(ty) ==
    { serialize(v) : v \in Values(ty) }
    \cup { << <<"/","a","b","c">> >>, << <<>> >>, <<>> }

\* Sequences of up to n packets.
RECURSIVE PacketSeqs(_, _)
PacketSeqs(ty, n) ==
    IF n = 0 THEN { <<>> }
    ELSE { <<>> } \cup
         { <<p>> \o rest : p \in PacketSamples(ty), rest \in PacketSeqs(ty, n - 1) }

-----------------------------------------------------------------------------
(* The message operations as steps of a caller: either a value is built,
   encoded and decoded again, or an address and an argument sequence arrive
   from the codec and are decoded. *)

RouteInit ==
    /\ op = "init"
    /\ t = Unset /\ abs = Unset /\ tag = Unset
    /\ bundle = Unset /\ sys = Unset /\ arg = Unset
    /\ msg = Unset /\ target = Unset /\ addr = Unset
    /\ wire = Unset /\ packets = Unset /\ decoded = Unset
    /\ seq = Unset /\ out = Unset

\* let msg = Type::Variant(path_arg, msg_data);
Construct ==
    /\ op = "init"
    /\ \E v \in AllValues :
        /\ op' = "construct"
        /\ msg' = v
        /\ target' = Some(v.ty)
        /\ addr' = Unset /\ seq' = Unset /\ out' = Unset
        /\ wire' = Unset /\ packets' = Unset /\ decoded' = Unset
    /\ UNCHANGED timeVars

\* let addr = msg.get_address();
GetAddress ==
    /\ msg # Unset
    /\ addr = Unset
    /\ op' = "get_address"
    /\ addr' = Some(get_address(msg))
    /\ UNCHANGED <<msg, target, seq, out, wire, packets, decoded>>
    /\ UNCHANGED timeVars

\* MyStruct::First((), ()).get_address() with #[derive(OscAddress)].
MacrosGetAddress ==
    /\ op = "init"
    /\ \E v \in MacrosValues :
        /\ op' = "macros_get_address"
        /\ msg' = v
        /\ addr' = Some(macros_get_address(v))
    /\ UNCHANGED <<target, seq, out, wire, packets, decoded>>
    /\ UNCHANGED timeVars

\* msg.serialize_body(&mut serializer): the cursor of the decoding side
\* holds what was written.
SerializeBody ==
    /\ msg # Unset
    /\ msg.ty \in TypeNames
    /\ seq = Unset
    /\ op' = "serialize_body"
    /\ seq' = Some(serialize_body(msg, <<>>))
    /\ UNCHANGED <<msg, target, addr, out, wire, packets, decoded>>
    /\ UNCHANGED timeVars

\* serde::Serialize::serialize(&msg, serializer), generated for enums.
Serialize ==
    /\ msg # Unset
    /\ msg.ty \in TypeNames
    /\ Decl(msg.ty).body = "Enum"
    /\ wire = Unset
    /\ op' = "serialize"
    /\ wire' = Some(serialize(msg))
    /\ UNCHANGED <<msg, target, addr, seq, out, packets, decoded>>
    /\ UNCHANGED timeVars

\* An address and an argument sequence arrive for a type.
Receive ==
    /\ op = "init"
    /\ \E ty \in TypeNames :
        \E address \in AddressSamples(ty), cursor \in CursorSamples(ty) :
            /\ op' = "receive"
            /\ msg' = Unset
            /\ target' = Some(ty)
            /\ addr' = Some(address)
            /\ seq' = Some(cursor)
            /\ out' = Unset
            /\ wire' = Unset /\ packets' = Unset /\ decoded' = Unset
    /\ UNCHANGED timeVars

\* The messages of a bundle arrive and are deserialized as
\* Vec<OscPacket<M>>.
DeserializeBundle ==
    /\ op = "init"
    /\ \E ty \in BundleTypes :
        \E wires \in PacketSeqs(ty, MaxPackets) :
            /\ op' = "deserialize_bundle"
            /\ target' = Some(ty)
            /\ packets' = Some(wires)
            /\ decoded' = Vec_deserialize(ty, wires, <<>>)
    /\ UNCHANGED <<msg, addr, seq, out, wire>>
    /\ UNCHANGED timeVars

\* let out = Type::deserialize_body(addr, seq);
DeserializeBody ==
    /\ addr # Unset /\ seq # Unset
    /\ out = Unset
    /\ op' = "deserialize_body"
    /\ out' = deserialize_body(target.val, addr.val, seq.val)
    /\ UNCHANGED <<msg, target, addr, seq, wire, packets, decoded>>
    /\ UNCHANGED timeVars

\* The values are dropped; the caller starts over.
RouteDrop ==
    /\ op # "init"
    /\ op' = "init"
    /\ msg' = Unset /\ target' = Unset /\ addr' = Unset
    /\ seq' = Unset /\ out' = Unset
    /\ wire' = Unset /\ packets' = Unset /\ decoded' = Unset
    /\ UNCHANGED timeVars

RouteNext ==
    \/ Construct
    \/ GetAddress
    \/ MacrosGetAddress
    \/ SerializeBody
    \/ Serialize
    \/ Receive
    \/ DeserializeBundle
    \/ DeserializeBody
    \/ RouteDrop

RouteSpec == RouteInit /\ [][RouteNext]_vars

-----------------------------------------------------------------------------
(* Properties of the time tag *)

\* The numbers the properties name, written out in decimal.
NtpEpoch1970(n) == Dec(<<2,2,0,8,9,8,8,8,0,0>>, n)
LastUnixSecond(n) == Dec(<<2,0,8,5,9,7,8,4,9,5>>, n)
Billion(n) == Dec(<<1,0,0,0,0,0,0,0,0,0>>, n)
Half == <<0, 0, 0, 128>>

\* abs is the result of from_system_time(t).
FromT == t.kind = "SystemTime" /\ abs.kind \in {"None", "Some"}

\* sys is the result of as_system_time on abs.
SysOfAbs == abs.kind = "Some" /\ sys.kind # "Unset"

\* C2: OscTime::new(sec, frac) is Now if and only if (sec, frac) = (0, 1);
\* for every other pair it is At carrying exactly that sec and frac.
C2_NewIsNowIffSentinel ==
    op = "OscTime::new" =>
        /\ (tag = Now) <=> (arg.sec = <<0, 0, 0, 0>> /\ arg.frac = <<1, 0, 0, 0>>)
        /\ tag # Now =>
               tag.kind = "At" /\ tag.abs.sec = arg.sec /\ tag.abs.frac = arg.frac

C2_Witness ==
    /\ op = "OscTime::new"
    /\ tag = Now
    /\ arg.sec = <<0, 0, 0, 0>> /\ arg.frac = <<1, 0, 0, 0>>

\* C3: no OscTime a caller can obtain through the public API is an At whose
\* AbsOscTime has sec = 0 and frac = 1; (0, 1) is only ever Now.
C3_NoSentinelAt ==
    tag.kind = "At" => ~(tag.abs.sec = <<0, 0, 0, 0>> /\ tag.abs.frac = <<1, 0, 0, 0>>)

\* C4: from_system_time(t) is None exactly when t precedes 1970, or its
\* seconds since 1970 exceed 2^32-1, or those plus 2208988800 exceed 2^32-1:
\* it succeeds iff 0 <= unix_secs <= 2085978495, with sec = unix_secs + 2208988800.
C4_FromSystemTimeRange ==
    FromT =>
        LET fits == ~t.before /\ Leq(t.secs, LastUnixSecond(8))
        IN  /\ (abs.kind = "Some") <=> fits
            /\ (abs.kind = "Some") =>
                   Pad(abs.val.sec, 9) = AddDigits(t.secs, NtpEpoch1970(8), 0)

\* The last representable second was converted, and the one after it refused.
C4_Witness ==
    /\ FromT
    /\ t.secs = LastUnixSecond(8)
    /\ abs.kind = "Some"
    /\ abs.val.sec = U32Max

\* C5: as_system_time is None if and only if sec < 2208988800; for every
\* other sec it is a time whose whole seconds since 1970 are sec - 2208988800.
C5_AsSystemTimeRange ==
    SysOfAbs =>
        /\ (sys = None) <=> Less(abs.val.sec, NtpEpoch1970(4))
        /\ (sys # None) =>
               /\ sys.kind = "Some"
               /\ ~sys.val.before
               /\ AddDigits(sys.val.secs, NtpEpoch1970(8), 0) = Pad(abs.val.sec, 9)

\* Both sides of the boundary: 2208988800 itself converts to second 0.
C5_Witness ==
    /\ SysOfAbs
    /\ abs.val.sec = NtpEpoch1970(4)
    /\ sys.kind = "Some"
    /\ IsZero(sys.val.secs)

\* C6: in from_system_time the fraction is floor(n * 2^32 / 10^9) for every
\* nanosecond count n below 10^9; n << 32 loses no bit of the u64, and the
\* quotient is below 2^32, so the cast to u32 drops nothing.
C6_FractionExact ==
    (FromT /\ abs.kind = "Some") =>
        LET n      == t.nanos
            shift  == Zeros(4) \o Pad(n, 8)                 \* n * 2^32, exactly
            f      == abs.val.frac
            fTimes == Pad(Mul(f, Billion(4)), 9)            \* f * 10^9, exactly
        IN  /\ IsZero(High(shift, 8))
            /\ Shl32(Pad(n, 8)) = Low(shift, 8)
            /\ IsZero(High(frac_u64(n), 4))
            /\ Leq(fTimes, Pad(shift, 9))
            /\ Less(Pad(shift, 9), AddDigits(Low(fTimes, 8), Billion(8), 0))

\* The largest nanosecond count was converted.
C6_Witness ==
    /\ FromT /\ abs.kind = "Some"
    /\ t.nanos = FromInt(999999999, 4)
    /\ abs.val.frac = Dec(<<4,2,9,4,9,6,7,2,9,1>>, 4)

\* C7: in as_system_time the nanoseconds are (f * 10^9) >> 32 for every
\* fraction f; the product stays below 2^64, the shifted value is below 10^9
\* and so never carries into the seconds.
C7_NanosExact ==
    (SysOfAbs /\ sys # None) =>
        LET f      == abs.val.frac
            prod   == Mul(f, Billion(4))                    \* f * 10^9, exactly
            ns     == sys.val.nanos
            nsUp   == Zeros(4) \o ns                        \* ns * 2^32, exactly
        IN  /\ IsZero(High(nanos_product(f), 8))
            /\ IsZero(High(nanos_u64(f), 4))
            /\ sys.kind = "Some"
            /\ Less(ns, Billion(4))
            /\ Leq(nsUp, prod)
            /\ Less(Pad(prod, 9), AddDigits(nsUp, Zeros(4) \o <<1, 0, 0, 0>>, 0))
            /\ AddDigits(sys.val.secs, NtpEpoch1970(8), 0) = Pad(abs.val.sec, 9)

\* The largest fraction was converted: 999999999 nanoseconds, no carry.
C7_Witness ==
    /\ SysOfAbs /\ sys.kind = "Some"
    /\ abs.val.frac = U32Max
    /\ sys.val.nanos = FromInt(999999999, 4)

\* C8: 1970-01-01T00:00:00 converts to (2208988800, 0) and back to itself,
\* and so does every whole-second time NTP can hold.
C8_WholeSecondRoundTrip ==
    (FromT /\ ~t.before /\ IsZero(t.nanos)) =>
        /\ IsZero(t.secs) =>
               abs = Some(AbsOscTime_new(NtpEpoch1970(4), <<0, 0, 0, 0>>))
        /\ Leq(t.secs, LastUnixSecond(8)) => abs.kind = "Some"
        /\ SysOfAbs => sys = Some(t)

\* The epoch itself went to NTP and came back.
C8_Witness ==
    /\ FromT /\ ~t.before /\ IsZero(t.nanos) /\ IsZero(t.secs)
    /\ SysOfAbs
    /\ sys = Some(t)

\* C9: the fraction 0x80000000 converts to exactly 500000000 nanoseconds,
\* and 500000000 nanoseconds convert to 0x80000000, one unit off at most.
C9_HalfSecond ==
    /\ (SysOfAbs /\ sys.kind = "Some" /\ abs.val.frac = Half) =>
           sys.val.nanos = FromInt(500000000, 4)
    /\ (FromT /\ abs.kind = "Some" /\ t.nanos = FromInt(500000000, 4)) =>
           abs.val.frac \in {<<255, 255, 255, 127>>, Half, <<1, 0, 0, 128>>}

\* A half second went to NTP and came back.
C9_Witness ==
    /\ FromT /\ t.nanos = FromInt(500000000, 4)
    /\ SysOfAbs /\ abs.val.frac = Half
    /\ sys.kind = "Some" /\ sys.val.nanos = FromInt(500000000, 4)

-----------------------------------------------------------------------------
(* Properties of the address router *)

\* The caller built msg, took its address and its arguments, and decoded
\* them as the type of msg.
Decoded ==
    /\ msg # Unset
    /\ addr # Unset /\ seq # Unset
    /\ out # Unset

\* C1: for every value v, deserialize_body of the address that
\* get_address(v) returns and of the elements serialize_body(v) writes succeeds, and
\* the value it returns equals v.
C1_RoundTrip ==
    Decoded => (out.kind = "Ok" /\ out.val = msg)

\* C10: get_address of a struct is the empty string; get_address of an
\* enum value is not empty and begins with '/'.
C10_AddressShape ==
    (msg # Unset /\ addr # Unset) =>
        IF Decl(msg.ty).body = "Struct"
        THEN addr.val = <<>>
        ELSE Len(addr.val) >= 1 /\ addr.val[1] = "/"

\* The address of an enum value that nests two more enums, one of them
\* with a path argument, has been taken.
C10_Witness ==
    /\ msg # Unset /\ addr # Unset
    /\ msg.ty = "OscToplevel"
    /\ addr.val = <<"/","r","e","n","d","e","r","e","r","/","4","2","/","s","a","y">>

\* The segment of one nesting level: the declared literal of the variant
\* for a unit path argument, the rendering of the path argument otherwise.
LevelSegment(v) ==
    LET variant == VariantOf(v.ty, v.variant)
    IN  IF Len(variant.addresses) = 1 THEN variant.addresses[1]
        ELSE Display(v.path_arg)

\* The values of the nesting levels of an enum value, from the top down.
RECURSIVE Levels(_)
Levels(v) ==
    IF Decl(v.ty).body = "Struct" THEN <<>>
    ELSE IF VariantOf(v.ty, v.variant).fields[2].kind = "Tup" THEN <<v>>
    ELSE <<v>> \o Levels(v.msg_data)

\* '/' and a segment, for each of the levels from i on.
RECURSIVE JoinLevels(_, _)
JoinLevels(levels, i) ==
    IF i > Len(levels) THEN <<>>
    ELSE (<<"/">> \o LevelSegment(levels[i])) \o JoinLevels(levels, i + 1)

\* msg is a value of a type OscMessage is derived for and its address has
\* been taken.
AddressTaken ==
    /\ msg # Unset /\ addr # Unset
    /\ msg.ty \in TypeNames

\* C11: get_address of an enum value is, from the top level down, '/' and
\* the segment of each level (the literal, or the rendered path argument),
\* with nothing added for a sequence payload: Left((), Second(..)) gives
\* "/left/second", Second((), ..) gives "/second", Second(42, ()) gives "/42".
C11_Concatenation ==
    AddressTaken =>
        /\ addr.val = JoinLevels(Levels(msg), 1)
        /\ (msg.ty = "test_nested::MsgRoot" /\ msg.variant = "Left"
              /\ msg.msg_data.variant = "Second")
           => addr.val = <<"/","l","e","f","t","/","s","e","c","o","n","d">>
        /\ (msg.ty = "test_nested::MsgLeaf" /\ msg.variant = "Second")
           => addr.val = <<"/","s","e","c","o","n","d">>
        /\ (msg.ty = "test_patharg::MyStruct" /\ msg.variant = "Second"
              /\ msg.path_arg = IntArg(42))
           => addr.val = <<"/","4","2">>

\* The address of MsgRoot::Left((), MsgLeaf::Second(..)) has been taken.
C11_Witness ==
    /\ AddressTaken
    /\ msg.ty = "test_nested::MsgRoot" /\ msg.variant = "Left"
    /\ msg.msg_data.variant = "Second"
    /\ Len(Levels(msg)) = 2

\* C12: with #[derive(OscAddress)] of osc_address_macros, get_address of
\* a variant declared with address="first", a unit path argument and a
\* sequence payload is exactly the declared literal "first".
C12_MacrosLiteral ==
    (/\ msg # Unset /\ addr # Unset
     /\ msg.ty = "macros::test::MyStruct" /\ msg.variant = "First")
    => addr.val = <<"f","i","r","s","t">>

\* An address and an argument sequence were decoded as an enum, and the
\* address had a first character to strip.
EnumDecoded ==
    /\ target # Unset /\ addr # Unset /\ seq # Unset /\ out # Unset
    /\ Decl(target.val).body = "Enum"
    /\ Len(addr.val) >= 1

\* The component and the downstream address of the decoded address.
Component == split_address(addr.val).component_name
Downstream == split_address(addr.val).downstream_address

\* The place of a variant in the declaration of its enum.
IndexOf(ty, ident) ==
    CHOOSE i \in 1..Len(Decl(ty).variants) : Decl(ty).variants[i].ident = ident

\* C13: decoding tries the variants in the order of declaration and
\* returns the first that matches: the variant of a decoded value matches
\* the segment and no variant declared before it does; with variants
\* "new", "del" and a u32 with a nested enum, "/42/say" goes to the u32
\* variant with path argument 42.
C13_FirstMatchWins ==
    /\ (EnumDecoded /\ out.kind = "Ok") =>
          LET variants == Decl(target.val).variants
              k        == IndexOf(target.val, out.val.variant)
          IN  /\ arm_matches(variants[k], Component, Downstream)
              /\ \A j \in 1..(k - 1) :
                    ~arm_matches(variants[j], Component, Downstream)
    /\ (/\ EnumDecoded /\ target.val = "OscRenderer"
        /\ addr.val = <<"/","4","2","/","s","a","y">>
        /\ seq.val = <<Element("(String,)", 1)>>)
       => /\ out.kind = "Ok"
          /\ out.val.variant = "ById"
          /\ out.val.path_arg = IntArg(42)
          /\ out.val.msg_data.variant = "Say"

\* "/42/say" with one String argument has been decoded as OscRenderer.
C13_Witness ==
    /\ EnumDecoded /\ target.val = "OscRenderer"
    /\ addr.val = <<"/","4","2","/","s","a","y">>
    /\ seq.val = <<Element("(String,)", 1)>>
    /\ out.kind = "Ok"

\* The text of s up to its first '/', or all of s when it has none.
RECURSIVE UpToSlash(_)
UpToSlash(s) ==
    IF s = <<>> \/ Head(s) = "/" THEN <<>>
    ELSE <<Head(s)>> \o UpToSlash(Tail(s))

\* The current segment of an address: the text after its first character
\* up to the next '/'; and what follows that segment.
CurrentSegment(a) == UpToSlash(Tail(a))
AfterSegment(a) == SubSeq(a, Len(CurrentSegment(a)) + 2, Len(a))

\* Every segment of an address.
RECURSIVE SegmentsOf(_)
SegmentsOf(a) ==
    IF a = <<>> THEN {}
    ELSE {CurrentSegment(a)} \cup SegmentsOf(AfterSegment(a))

\* The error of an enum none of whose arms returned.
Unrecognized(e) ==
    /\ e.kind = "Err"
    /\ e.err.error = "invalid_value"
    /\ e.err.expecting = "an OSC component name that matches one of the enum variants"

\* C14: when no variant of the enum matches the current segment,
\* deserialize_body returns the unrecognized-segment error with exactly
\* that segment (the text between the leading '/' and the next '/', not
\* the whole address); an error of a nested enum carries a segment of the
\* address; "/abc/say" against "new", "del" and a u32 fails with "abc".
C14_UnrecognizedSegment ==
    /\ (/\ EnumDecoded
        /\ selected_arm(target.val, CurrentSegment(addr.val),
                        AfterSegment(addr.val)) = 0)
       => /\ Unrecognized(out)
          /\ out.err.unexpected = CurrentSegment(addr.val)
    /\ (EnumDecoded /\ Unrecognized(out))
       => out.err.unexpected \in SegmentsOf(addr.val)
    /\ (/\ EnumDecoded /\ target.val = "OscRenderer"
        /\ addr.val = <<"/","a","b","c","/","s","a","y">>)
       => /\ Unrecognized(out)
          /\ out.err.unexpected = <<"a","b","c">>

\* "/abc/say" has been decoded as OscRenderer and was refused.
C14_Witness ==
    /\ EnumDecoded /\ target.val = "OscRenderer"
    /\ addr.val = <<"/","a","b","c","/","s","a","y">>
    /\ out.kind = "Err"

\* An address and an argument sequence were decoded as a struct.
StructDecoded ==
    /\ target # Unset /\ addr # Unset /\ seq # Unset /\ out # Unset
    /\ Decl(target.val).body = "Struct"

\* C15: decoding a struct succeeds only if the address is "" or "/"; any
\* other address gives the trailing-address error; with an accepted
\* address it takes exactly one element of the cursor and returns it, or
\* gives the missing-payload error when the cursor is exhausted.
C15_StructLeaf ==
    StructDecoded =>
        LET accepted == addr.val \in { <<>>, <<"/">> }
        IN  /\ out.kind = "Ok" => accepted
            /\ ~accepted =>
                  /\ out.kind = "Err"
                  /\ out.err.error = "invalid_value"
                  /\ out.err.expecting = "the OSC path to be terminated by this point"
                  /\ out.seq = seq.val
            /\ (accepted /\ seq.val = <<>>) =>
                  /\ out.kind = "Err"
                  /\ out.err.error = "invalid_length"
            /\ (accepted /\ seq.val # <<>> /\ Head(seq.val).ty = target.val) =>
                  /\ out.kind = "Ok"
                  /\ out.val = Head(seq.val)
                  /\ out.seq = Tail(seq.val)

\* A struct has been decoded from "/" and a cursor of two elements, one
\* of which is left.
C15_Witness ==
    /\ StructDecoded
    /\ addr.val = <<"/">>
    /\ Len(seq.val) = 2
    /\ out.kind = "Ok" /\ Len(out.seq) = 1

\* The first arm that matches the decoded address has a sequence payload.
SequenceArmSelected ==
    /\ EnumDecoded
    /\ LET k == selected_arm(target.val, Component, Downstream)
       IN  /\ k # 0
           /\ get_variant_props(Decl(target.val).variants[k]).msg_args_type = "Seq"

\* C16: when a variant with a sequence payload matches the address and the
\* argument cursor is exhausted, deserialize_body returns the error of a
\* missing payload element to its caller; it neither aborts nor returns a
\* value.
C16_MissingPayloadIsError ==
    (SequenceArmSelected /\ seq.val = <<>>)
    => /\ out.kind = "Err"
       /\ out.err.error = "invalid_length"

\* The payload at the bottom of a value: what is left after every nested
\* enum level has been entered.
RECURSIVE LeafPayload(_)
LeafPayload(v) ==
    IF Decl(v.ty).body = "Struct" THEN v
    ELSE IF VariantOf(v.ty, v.variant).fields[2].kind = "Tup" THEN v.msg_data
    ELSE LeafPayload(v.msg_data)

\* C17: a message value serializes as exactly two elements whatever its
\* nesting depth: the whole address get_address returns, then the one
\* payload element found below every nested level.
C17_TwoElements ==
    (msg # Unset /\ wire # Unset) =>
        /\ Len(wire.val) = 2
        /\ wire.val[1] = JoinLevels(Levels(msg), 1)
        /\ wire.val[2] = LeafPayload(msg)

\* A value of three nesting levels has been serialized.
C17_Witness ==
    /\ msg # Unset /\ wire # Unset
    /\ msg.ty = "OscToplevel"
    /\ Len(Levels(msg)) = 3

\* Renderer((), ById(42, Say((), ("HELLO, WORLD!",)))), the argument
\* being the first String payload of the model.
HelloWorld ==
    EnumValue("OscToplevel", "Renderer", UnitArg,
        EnumValue("OscRenderer", "ById", IntArg(42),
            EnumValue("OscRendererById", "Say", UnitArg, Element("(String,)", 1))))

RendererSay == <<"/","r","e","n","d","e","r","e","r","/","4","2","/","s","a","y">>

\* C18: "/renderer/42/say" with one String argument decodes through
\* OscToplevel, OscRenderer and OscRendererById into
\* Renderer((), ById(42, Say((), (argument,)))), and get_address of that
\* value is "/renderer/42/say" again.
C18_RendererSay ==
    (/\ EnumDecoded /\ target.val = "OscToplevel"
     /\ addr.val = RendererSay
     /\ seq.val = <<Element("(String,)", 1)>>)
    => /\ out.kind = "Ok"
       /\ out.val = HelloWorld
       /\ out.seq = <<>>
       /\ get_address(out.val) = RendererSay

\* The address arrived from the codec (no value was built first) and has
\* been decoded.
C18_Witness ==
    /\ EnumDecoded /\ target.val = "OscToplevel"
    /\ msg = Unset
    /\ addr.val = RendererSay
    /\ seq.val = <<Element("(String,)", 1)>>
    /\ out.kind = "Ok"

\* The messages of a bundle have been deserialized.
BundleDecoded ==
    /\ packets # Unset /\ decoded # Unset

\* C19: in a bundle the failure of one packet leaves its siblings alone:
\* every packet that decodes by itself, before or after a failing one, is
\* decoded and among the messages of the bundle.
C19_SiblingsIndependent ==
    BundleDecoded =>
        \A i \in 1..Len(packets.val) :
            LET alone == visit_seq(target.val, packets.val[i])
            IN  alone.kind = "Ok" =>
                  /\ decoded.kind = "Ok"
                  /\ \E j \in 1..Len(messages(decoded)) :
                        messages(decoded)[j] = Message(alone.val)

\* The nesting depth of a type: how many nested OscMessage types lie
\* below it at most.
RECURSIVE NestingDepth(_)
NestingDepth(ty) ==
    LET nested == NestedTypes({ty})
        depths == { NestingDepth(n) : n \in nested }
    IN  IF nested = {} THEN 0
        ELSE 1 + (CHOOSE d \in depths : \A e \in depths : e <= d)

\* deserialize_body has returned or aborted.
BodyDecoded ==
    /\ target # Unset /\ addr # Unset /\ seq # Unset /\ out # Unset

\* C20: every deserialize_body call ends, after at most as many nested
\* calls as the type nests levels, each nested call being made with a
\* downstream address strictly shorter than the address it was split from.
C20_BoundedDescent ==
    BodyDecoded =>
        LET c == calls(target.val, addr.val)
        IN  /\ out.kind \in {"Ok", "Err", "Panic"}
            /\ Len(c) - 1 <= NestingDepth(target.val)
            /\ \A i \in 1..(Len(c) - 1) : Len(c[i + 1]) < Len(c[i])

\* A decode of "/renderer/42/say" has made its two nested calls.
C20_Witness ==
    /\ BodyDecoded /\ target.val = "OscToplevel"
    /\ addr.val = RendererSay
    /\ Len(calls(target.val, addr.val)) = 3

\* The variants of the decoded enum that have a literal and a sequence
\* payload.
LiteralSequenceArms ==
    { k \in 1..Len(Decl(target.val).variants) :
        LET variant_props == get_variant_props(Decl(target.val).variants[k])
        IN  /\ variant_props.address.kind = "Str"
            /\ variant_props.msg_args_type = "Seq" }

\* C21: a variant with a literal and a sequence payload is selected if
\* and only if the current segment equals the literal and nothing is
\* downstream (the right segment followed by more text, a bare '/'
\* included, does not select it), and a match takes exactly one element
\* of the cursor.
C21_LiteralSequenceArm ==
    EnumDecoded =>
        \A k \in LiteralSequenceArms :
            LET variant == Decl(target.val).variants[k]
                exact   == /\ CurrentSegment(addr.val) = variant.addresses[1]
                           /\ AfterSegment(addr.val) = <<>>
                earlier == \E j \in 1..(k - 1) :
                              arm_matches(Decl(target.val).variants[j],
                                          Component, Downstream)
            IN  /\ (out.kind = "Ok" /\ out.val.variant = variant.ident) =>
                      /\ exact
                      /\ seq.val # <<>>
                      /\ out.val.msg_data = Head(seq.val)
                      /\ out.seq = Tail(seq.val)
                /\ (/\ exact /\ ~earlier
                    /\ seq.val # <<>> /\ Head(seq.val).ty = variant.fields[2].name) =>
                      /\ out.kind = "Ok"
                      /\ out.val.variant = variant.ident
                      /\ out.seq = Tail(seq.val)

\* "/first/" has been decoded as test_nested::MsgLeaf, whose First has the
\* literal "first" and a sequence payload, and was refused.
C21_Witness ==
    /\ EnumDecoded /\ target.val = "test_nested::MsgLeaf"
    /\ addr.val = <<"/","f","i","r","s","t","/">>
    /\ seq.val # <<>>
    /\ out.kind = "Err"

\* The first arm that matches the decoded address has a nested OscMessage
\* as its payload.
NestedArmSelected ==
    /\ EnumDecoded
    /\ LET k == selected_arm(target.val, Component, Downstream)
       IN  /\ k # 0
           /\ get_variant_props(Decl(target.val).variants[k]).msg_args_type = "Struct"

\* C22: decoding does not backtrack: once a variant with a nested payload
\* matches the segment, what the nested decode returns is final; when it
\* fails its error is returned unchanged and no later variant is tried,
\* even one that would match.
C22_NoBacktracking ==
    NestedArmSelected =>
        LET k       == selected_arm(target.val, Component, Downstream)
            variant == Decl(target.val).variants[k]
            inner   == deserialize_body(variant.fields[2].name,
                                        AfterSegment(addr.val), seq.val)
        IN  /\ inner.kind = "Err" => out = inner
            /\ inner.kind = "Ok" =>
                  /\ out.kind = "Ok"
                  /\ out.val.variant = variant.ident
                  /\ out.val.msg_data = inner.val
            /\ out.kind = "Ok" => inner.kind = "Ok"

\* "/42/abc" has been decoded as an enum whose first variant takes 42 and
\* nests an enum that refuses "abc", and whose second variant would have
\* taken "42" as a String.
C22_Witness ==
    /\ NestedArmSelected /\ target.val = "doc::ByIdOrName"
    /\ addr.val = <<"/","4","2","/","a","b","c">>
    /\ seq.val # <<>>
    /\ arm_matches(Decl(target.val).variants[2], Component, Downstream)
    /\ Unrecognized(out) /\ out.err.unexpected = <<"a","b","c">>

\* An address and a cursor that holds an element were decoded as an enum;
\* the address may be empty.
BranchDecoded ==
    /\ BodyDecoded
    /\ Decl(target.val).body = "Enum"
    /\ seq.val # <<>>

\* C23: decoding an enum is total: for every address, the empty one and
\* one that ends at a variant with a nested enum (as "/renderer") included,
\* deserialize_body returns a value or an error to its caller and never
\* aborts.  (Stated for cursors that hold an element, which leaves the
\* exhausted cursor of C16 aside.)
C23_DecodeTotal ==
    BranchDecoded => out.kind \in {"Ok", "Err"}

\* An address built of canonically rendered segments: it is not empty,
\* begins with '/', and each of its segments is not empty (every segment
\* of the model that is not empty is the rendering of a value: a word, a
\* number without sign or with '-', no '+' and no leading zero).
Canonical(a) ==
    /\ a # <<>>
    /\ Head(a) = "/"
    /\ <<>> \notin SegmentsOf(a)

\* C24: a decode that succeeds accounts for the whole address: whenever
\* deserialize_body succeeds on an address of canonically rendered
\* segments, get_address of the value it returns is that address; no
\* residual address is dropped.
C24_WholeAddress ==
    (/\ EnumDecoded /\ out.kind = "Ok"
     /\ Canonical(addr.val))
    => get_address(out.val) = addr.val

-----------------------------------------------------------------------------
(* The time tag, there and back *)

\* C25: every value from_system_time(t) returns has sec >= 2208988800, so
\* it is never the (0, 1) of Now and as_system_time succeeds on it; the
\* time that comes back has the whole seconds of t and the nanoseconds of
\* t or exactly one less.
C25_ThereAndBack ==
    (FromT /\ abs.kind = "Some") =>
        /\ Leq(NtpEpoch1970(4), abs.val.sec)
        /\ ~(IsZero(abs.val.sec) /\ abs.val.frac = <<1, 0, 0, 0>>)
        /\ OscTime_new(abs.val.sec, abs.val.frac) = At(abs.val)
        /\ SysOfAbs =>
              /\ sys.kind = "Some"
              /\ ~sys.val.before
              /\ sys.val.secs = t.secs
              /\ \/ sys.val.nanos = t.nanos
                 \/ /\ ~IsZero(t.nanos)
                    /\ sys.val.nanos = Low(SubDigits(t.nanos, FromInt(1, 4), 0), 4)

\* A time with a nanosecond field that is not zero went to NTP and came
\* back one nanosecond earlier.
C25_Witness ==
    /\ FromT /\ abs.kind = "Some"
    /\ SysOfAbs /\ sys.kind = "Some"
    /\ sys.val.secs = t.secs
    /\ sys.val.nanos = Low(SubDigits(t.nanos, FromInt(1, 4), 0), 4)
    /\ ~IsZero(t.nanos)

=============================================================================
